---- MODULE Spec2Model ----
(***************************************************************************)
(* A model of cantara-songlib's classic-song pipeline:                     *)
(*   - slides.rs        wrap_blocks (the line-wrap engine)                 *)
(*   - classic_song.rs  import_song / parse_block (the document parser)    *)
(*   - classic_song.rs  slides_from_classic_song (the slide assembler)     *)
(*   - metadata.rs      parse_metadata_block / get_title_from_file_content *)
(* Text is a sequence of one-character strings; a Vec is a sequence; a     *)
(* usize index keeps the 0-based value the code computes with.             *)
(***************************************************************************)
EXTENDS Integers, Sequences, FiniteSets, TLC

\* ------------------------------------------------------------------ bounds
\* Most lines one track of a wrap_blocks input holds, over all its stanzas.
MaxTrackLines == 4
\* Most stanzas one track of a wrap_blocks input holds.
MaxStanzas == 2
\* Largest maximum_lines tried.
MaxM == 3
\* slides_from_classic_song passes two tracks: vec![blocks, secondary_blocks].
PipelineTracks == 2

VARIABLES
    blocks,          \* wrap_blocks: the argument `blocks` of the first call
    maximum_lines,   \* wrap_blocks: the argument `maximum_lines`
    persistence,     \* wrap_blocks: the argument `persistence`
    wrapped_blocks,  \* wrap_blocks: the local `wrapped_blocks` (<<>> before the clone)
    block_index,     \* wrap_blocks: the local `block_index`
    pc,              \* position in the running function
    pass,            \* 1 in the first call of wrap_blocks, 2 in the call on its result
    first_result,    \* what the first call of wrap_blocks returned
    content,         \* import_song / slides_from_classic_song: the argument `content`
    line_no,         \* how many lines of content.trim().lines() the for loop has taken
    song,            \* import_song: the local `song`
    part,            \* import_song: the local `part`
    result,          \* import_song: "none" while running, then "NoContent" or "Ok"
    block_metadata,  \* parse_metadata_block(content): "none" before the call, then <<map>>
    lines_left,      \* slides_from_classic_song: what content.trim().lines() has still to give
    empty_line,                  \* slides_from_classic_song: the locals of the same names
    start_block_flag,
    meta_block_flag,
    slide_blocks,                \* the local `blocks`
    secondary_blocks,
    cur_block_string,
    cur_secundary_block_string,
    metadata,
    writing_area,
    slide_settings,  \* the argument `slide_settings`, fixed where it is first read
    slides,          \* the local `slides`
    meta_text,                   \* the locals of the same names
    meta_text_showable,
    input_empty,     \* history: the argument `content` was the empty text
    input_title,     \* history: the value of the #title tag of `content`, if any
    call_args,       \* the arguments of a function called on its own, <<>> if none
    call_result      \* <<>> before the call returns, then <<its value>>

wrapVars_but_pc == <<blocks, maximum_lines, persistence, wrapped_blocks,
                     block_index, pass, first_result>>
wrapVars == <<wrapVars_but_pc, pc>>

importVars == <<content, line_no, song, part, result, block_metadata>>

slideVars == <<lines_left, empty_line, start_block_flag, meta_block_flag,
               slide_blocks, secondary_blocks, cur_block_string,
               cur_secundary_block_string, metadata, writing_area,
               slide_settings, slides, meta_text, meta_text_showable,
               input_empty, input_title>>

callVars == <<call_args, call_result>>

vars == <<wrapVars, importVars, slideVars, callVars>>

\* ------------------------------------------------------------ Vec helpers
Min(a, b) == IF a <= b THEN a ELSE b

\* Vec::insert(k, e), k 0-based
InsertAt(s, k, e) == SubSeq(s, 1, k) \o <<e>> \o SubSeq(s, k + 1, Len(s))

\* Vec::remove(k), k 0-based
RemoveAt(s, k) == SubSeq(s, 1, k) \o SubSeq(s, k + 2, Len(s))

RECURSIVE SumSeq(_)
SumSeq(q) == IF q = <<>> THEN 0 ELSE q[1] + SumSeq(Tail(q))

RECURSIVE Flatten(_)
\* the lines of a track, stanza after stanza
Flatten(track) == IF track = <<>> THEN <<>> ELSE track[1] \o Flatten(Tail(track))

Range(s) == {s[i] : i \in 1..Len(s)}

\* ------------------------------------------------------------------ text
\* A str is a sequence of one-character strings.
NL == "\n"
\* the characters \s matches and trim() strips, among those the inputs use
WhiteSpace == {" ", NL}
LowerLetters == {"a", "b", "e", "i", "l", "t"}
UpperLetters == {"A", "B", "T"}
\* the characters \w matches, among those the inputs use
WordChars == LowerLetters \cup UpperLetters

\* char::to_lowercase
LowerChar(c) ==
    CASE c = "A" -> "a"
      [] c = "B" -> "b"
      [] c = "T" -> "t"
      [] OTHER -> c

\* str::to_lowercase
ToLower(s) == [i \in 1..Len(s) |-> LowerChar(s[i])]

\* the first index >= p whose character is not in S, Len(t)+1 if there is none
SkipWhile(t, p, S) ==
    LET stop == {i \in p..(Len(t) + 1) : i = Len(t) + 1 \/ t[i] \notin S}
    IN  CHOOSE i \in stop : \A j \in stop : i <= j

\* the index of the line feed that ends the line holding p, Len(t)+1 on the last line
LineEnd(t, p) ==
    LET stop == {i \in p..(Len(t) + 1) : i = Len(t) + 1 \/ t[i] = NL}
    IN  CHOOSE i \in stop : \A j \in stop : i <= j

\* str::trim_start, str::trim_end, str::trim
TrimStart(s) == SubSeq(s, SkipWhile(s, 1, WhiteSpace), Len(s))
TrimEnd(s) ==
    LET keep == {i \in 0..Len(s) : i = 0 \/ s[i] \notin WhiteSpace}
    IN  SubSeq(s, 1, CHOOSE i \in keep : \A j \in keep : j <= i)
Trim(s) == TrimEnd(TrimStart(s))

RECURSIVE Lines(_)
\* str::lines: split at line feeds, no empty last line
Lines(s) ==
    IF s = <<>> THEN <<>>
    ELSE LET e == LineEnd(s, 1)
         IN  <<SubSeq(s, 1, e - 1)>> \o Lines(SubSeq(s, e + 1, Len(s)))

RECURSIVE Join(_, _)
\* [String]::join(sep)
Join(ls, sep) ==
    IF ls = <<>> THEN <<>>
    ELSE IF Len(ls) = 1 THEN ls[1]
    ELSE ls[1] \o sep \o Join(Tail(ls), sep)

\* HashMap::insert
Put(m, k, v) == [x \in (DOMAIN m) \cup {k} |-> IF x = k THEN v ELSE m[x]]
EmptyMap == [x \in {} |-> <<>>]

\* the key "title"
Title == <<"t", "i", "t", "l", "e">>

\* ------------------------------------------------------------ the regexes
NoMatch == [ok |-> FALSE, key |-> <<>>, value |-> <<>>, end |-> 0]

\* `:\s*(.+)$` (multi-line) with the ':' at index c: \s* is greedy and gives
\* back until (.+) finds a character of a line; (.+) runs to the end of that line.
\* `end` is the index after the match.
TagTail(t, h, c) ==
    LET q == c + 1
        w == SkipWhile(t, q, WhiteSpace)
        starts == {k \in q..w : k <= Len(t) /\ t[k] # NL}
    IN  IF starts = {} THEN NoMatch
        ELSE LET v == CHOOSE k \in starts : \A j \in starts : j <= k
                 e == LineEnd(t, v)
             IN  [ok |-> TRUE, key |-> SubSeq(t, h + 1, c - 1),
                  value |-> SubSeq(t, v, e - 1), end |-> e]

\* `#(\w+):\s*(.+)$` matched with its '#' at index h
TagMatchAt(t, h) ==
    LET c == SkipWhile(t, h + 1, WordChars)
    IN  IF t[h] = "#" /\ c > h + 1 /\ c <= Len(t) /\ t[c] = ":"
        THEN TagTail(t, h, c)
        ELSE NoMatch

\* `#title:\s*(.+?)$` matched with its '#' at index h; (.+?) grows until `$`
\* matches, which is at the end of the line
TitleMatchAt(t, h) ==
    IF /\ h + 6 <= Len(t)
       /\ SubSeq(t, h, h + 6) = <<"#", "t", "i", "t", "l", "e", ":">>
    THEN TagTail(t, h, h + 6)
    ELSE NoMatch

\* `^\s*` (multi-line) before a '#' at index h: the line of h starts with white space only
AtLineStart(t, h) ==
    \A i \in 1..(h - 1) : (\A j \in i..(h - 1) : t[j] # NL) => t[i] \in WhiteSpace

RECURSIVE TagMatches(_, _, _)
\* captures_iter: the leftmost match at or after `from`, then on from its end.
\* The leading \s* of the pattern makes no difference to the captures.
TagMatches(t, from, anchored) ==
    LET hs == {h \in from..Len(t) :
                    /\ TagMatchAt(t, h).ok
                    /\ anchored => AtLineStart(t, h)}
    IN  IF hs = {} THEN <<>>
        ELSE LET h == CHOOSE x \in hs : \A y \in hs : x <= y
                 m == TagMatchAt(t, h)
             IN  <<m>> \o TagMatches(t, m.end, anchored)

RECURSIVE PutAll(_, _)
\* the closure of parse_metadata_block over the matches, in match order
PutAll(m, ms) ==
    IF ms = <<>> THEN m
    ELSE PutAll(Put(m, ToLower(Trim(ms[1].key)), Trim(ms[1].value)), Tail(ms))

\* parse_metadata_block: `^\s*#(\w+):\s*(.+)$`, multi-line
ParseMetadataBlock(block) == PutAll(EmptyMap, TagMatches(block, 1, TRUE))

\* get_title_from_file_content: the first match of `\s*#title:\s*(.+?)$`
GetTitleFromFileContent(c) ==
    LET hs == {h \in 1..Len(c) : TitleMatchAt(c, h).ok}
    IN  IF hs = {} THEN [some |-> FALSE, v |-> <<>>]
        ELSE [some |-> TRUE,
              v |-> TitleMatchAt(c, CHOOSE x \in hs : \A y \in hs : x <= y).value]

\* ------------------------------------------------------------------ Song
SongPartTypes ==
    {"Verse", "Chorus", "Bridge", "Intro", "Outro", "Interlude",
     "Instrumental", "Solo", "PreChorus", "PostChorus", "Refrain", "Other"}

\* SongPartType::to_string
TypeToString(t) ==
    CASE t = "Verse" -> "Verse"
      [] t = "Chorus" -> "Chorus"
      [] t = "Bridge" -> "Bridge"
      [] t = "Intro" -> "Intro"
      [] t = "Outro" -> "Outro"
      [] t = "Interlude" -> "Interlude"
      [] t = "Instrumental" -> "Instrumental"
      [] t = "Solo" -> "Solo"
      [] t = "PreChorus" -> "PreChorus"
      [] t = "PostChorus" -> "PostChorus"
      [] t = "Refrain" -> "Refrain"
      [] t = "Other" -> "Other"

\* str::to_lowercase on the names to_string gives
LowerName(n) ==
    CASE n = "Verse" -> "verse"
      [] n = "Chorus" -> "chorus"
      [] n = "Bridge" -> "bridge"
      [] n = "Intro" -> "intro"
      [] n = "Outro" -> "outro"
      [] n = "Interlude" -> "interlude"
      [] n = "Instrumental" -> "instrumental"
      [] n = "Solo" -> "solo"
      [] n = "PreChorus" -> "prechorus"
      [] n = "PostChorus" -> "postchorus"
      [] n = "Refrain" -> "refrain"
      [] n = "Other" -> "other"
      [] OTHER -> n

\* SongPartType::from_string: the match on the lowercased string
FromString(n) ==
    LET l == LowerName(n)
    IN  CASE l = "verse" -> "Verse"
          [] l = "chorus" -> "Chorus"
          [] l = "bridge" -> "Bridge"
          [] l = "intro" -> "Intro"
          [] l = "outro" -> "Outro"
          [] l = "interlude" -> "Interlude"
          [] l = "instrumental" -> "Instrumental"
          [] l = "solo" -> "Solo"
          [] l = "preChorus" -> "PreChorus"
          [] l = "postChorus" -> "PostChorus"
          [] l = "refrain" -> "Refrain"
          [] OTHER -> "Other"

\* Song::new
NewSong(title) == [title |-> title, tags |-> EmptyMap, parts |-> <<>>]

\* Song::add_tag
AddTag(sg, key, value) == [sg EXCEPT !.tags = Put(@, key, value)]

\* Song::get_part_count
GetPartCount(sg, t) == Cardinality({i \in 1..Len(sg.parts) : sg.parts[i].part_type = t})

\* SongPart::new; the id <<name, n>> is the string "name.n"
NewSongPart(id, specific_number) ==
    [id |-> id,
     part_type |-> FromString(id[1]),
     number |-> IF specific_number = 0 THEN 1 ELSE specific_number,
     contents |-> <<>>,
     is_repetition_of |-> 0]

AddPartOfTypeLinked(sg, t, lyrics, reference) ==
    LET id == <<TypeToString(t), GetPartCount(sg, t) + 1>>
    IN  [sg EXCEPT !.parts =
            Append(@, [NewSongPart(id, 0) EXCEPT
                            !.contents = <<lyrics>>,
                            !.is_repetition_of = Len(sg.parts)])]
\* Song::add_part_of_type(part_type, None), with the content SongPart::add_content
\* and the reference SongPart::set_repition give the new part in parse_block
AddPartOfType(sg, t, lyrics, reference) ==
    LET id == <<TypeToString(t), GetPartCount(sg, t) + 1>>
    IN  [sg EXCEPT !.parts =
            Append(@, [NewSongPart(id, 0) EXCEPT
                            !.contents = <<lyrics>>,
                            !.is_repetition_of = reference])]

FindContentExact(sg, c) ==
    LET hit(i) == \E k \in 1..Len(sg.parts[i].contents) : sg.parts[i].contents[k] = c
    IN  {i \in 1..Len(sg.parts) : hit(i)}
\* Song::find_content_in_part: the indices of the parts found, one per matching content
FindContentInPart(sg, c) ==
    LET hit(i) == \E k \in 1..Len(sg.parts[i].contents) :
                        ToLower(sg.parts[i].contents[k]) = ToLower(c)
    IN  {i \in 1..Len(sg.parts) : hit(i)}

\* SongPart::set_type
SetType(p, t) == [p EXCEPT !.part_type = t]

\* SongPart::update_id: the id is derived again from the type and the number
UpdateId(p) == [p EXCEPT !.id = <<TypeToString(p.part_type), p.number>>]

RECURSIVE AddTags(_, _)
\* the closure of parse_block over the tag matches, in match order
AddTags(sg, ms) ==
    IF ms = <<>> THEN sg
    ELSE LET tag_lowercase == ToLower(ms[1].key)
             tagged == AddTag(sg, tag_lowercase, ms[1].value)
         IN  AddTags(IF tag_lowercase = <<"t", "i", "t", "l", "e">>
                     THEN [tagged EXCEPT !.title = ms[1].value]
                     ELSE tagged,
                     Tail(ms))

\* parse_block. The parts are shared (Rc) between `song` and `cloned_song`, so the
\* promotion of the found part shows in the song returned.
ParseBlock(block, sg) ==
    IF block = <<>> THEN sg
    ELSE IF block[1] = "#" THEN AddTags(sg, TagMatches(block, 1, FALSE))
    ELSE LET found == FindContentInPart(sg, block)
         IN  IF found = {}
             THEN AddPartOfType(sg, "Verse", block, 0)
             ELSE LET last == CHOOSE i \in found : \A j \in found : j <= i
                  IN  [sg EXCEPT !.parts[last] =
                            UpdateId([SetType(@, "Chorus") EXCEPT !.number = 1])]

\* ------------------------------------------------------------ import_song
ImportLines == Lines(Trim(content))

\* if content.is_empty()
IsNoContent(c) == c = <<>>

\* the entry of import_song: the empty check, the title, Song::new
ImportEnter ==
    /\ pc = "import"
    /\ IF IsNoContent(content)
       THEN /\ result' = "NoContent"
            /\ pc' = "import_done"
            /\ UNCHANGED song
       ELSE /\ song' = NewSong(LET t == GetTitleFromFileContent(content)
                               IN  IF t.some THEN t.v ELSE <<>>)
            /\ pc' = "import_loop"
            /\ UNCHANGED result
    /\ UNCHANGED <<wrapVars_but_pc, content, line_no, part, block_metadata, slideVars>>
    /\ UNCHANGED callVars

\* one iteration of `for line in content.trim().lines()`
ImportLine ==
    /\ pc = "import_loop"
    /\ line_no < Len(ImportLines)
    /\ LET line == Trim(ImportLines[line_no + 1])
       IN  IF line = <<>>
           THEN IF part = <<>>
                THEN UNCHANGED <<song, part>>
                ELSE /\ song' = ParseBlock(part, song)
                     /\ part' = <<>>
           ELSE /\ part' = part \o line \o <<NL>>
                /\ UNCHANGED song
    /\ line_no' = line_no + 1
    /\ UNCHANGED <<wrapVars, content, result, block_metadata, slideVars>>
    /\ UNCHANGED callVars

\* after the loop: the last block, and Ok(song)
ImportReturn ==
    /\ pc = "import_loop"
    /\ line_no = Len(ImportLines)
    /\ IF part # <<>>
       THEN /\ song' = ParseBlock(part, song)
            /\ part' = <<>>
       ELSE UNCHANGED <<song, part>>
    /\ result' = "Ok"
    /\ pc' = "import_done"
    /\ UNCHANGED <<wrapVars_but_pc, content, line_no, block_metadata, slideVars>>
    /\ UNCHANGED callVars

\* parse_metadata_block called on the same text
ParseMetadataCall ==
    /\ pc \in {"import", "import_loop", "import_done"}
    /\ block_metadata = "none"
    /\ block_metadata' = <<ParseMetadataBlock(content)>>
    /\ UNCHANGED <<wrapVars, content, line_no, song, part, result, slideVars>>
    /\ UNCHANGED callVars

\* ----------------------------------------------------------- wrap_blocks
\* the panic condition of the length check
LengthsDifferShorter(b) == \E i \in 2..Len(b) : Len(b[i]) < Len(b[1])
LengthsDiffer(b) == \E i \in 2..Len(b) : Len(b[i]) # Len(b[1])

\* let splitter = min(maximum_lines-1, wrapped_blocks[0][block_index].len()/2)
SplitterHalf(m, len) == len \div 2
Splitter(m, len) == Min(m - 1, len \div 2)

\* the insertion of an empty stanza after block_index in every track
NeedsInsertLast(wb, bi, p) == Len(wb[1]) < bi + 2
NeedsInsert(wb, bi, p) == Len(wb[1]) < bi + 2 \/ p

InsertEmpty(wb, bi) == [t \in 1..Len(wb) |-> InsertAt(wb[t], bi + 1, <<>>)]

\* remove(line_index) from stanza bi, insert(moved_line_count, line) into stanza bi+1
MoveOneDrop(track, bi, line_index, moved) ==
    [track EXCEPT ![bi + 1] = RemoveAt(@, line_index)]
MoveOne(track, bi, line_index, moved) ==
    [track EXCEPT ![bi + 1] = RemoveAt(@, line_index),
                  ![bi + 2] = InsertAt(@, moved, track[bi + 1][line_index + 1])]

RECURSIVE MoveLines(_, _, _, _)
\* the inner while loop, one iteration per unfolding
MoveLines(wb, bi, line_index, moved) ==
    IF line_index < Len(wb[1][bi + 1])
    THEN MoveLines(
            [t \in 1..Len(wb) |->
                IF t = 1 \/ line_index < Len(wb[t][bi + 1])
                THEN MoveOne(wb[t], bi, line_index, moved)
                ELSE wb[t]],
            bi, line_index, moved + 1)
    ELSE wb

\* block_index += 1
NextBlockIndexSkip(bi, split) == IF split THEN bi + 2 ELSE bi + 1
NextBlockIndex(bi, split) == bi + 1

\* the argument of the running call
CallInput == IF pass = 1 THEN blocks ELSE first_result

\* No terminating call grows a track beyond its stanzas plus its lines; the cap
\* only stops a run that never ends.
StanzaCap == MaxStanzas + MaxTrackLines + 2

\* the entry of wrap_blocks: the empty check, the length check, the clone
WrapEnter ==
    /\ pc = "start"
    /\ IF CallInput = <<>>
       THEN /\ wrapped_blocks' = CallInput
            /\ pc' = "done"
       ELSE IF LengthsDiffer(CallInput)
       THEN /\ pc' = "panicked"
            /\ UNCHANGED wrapped_blocks
       ELSE /\ wrapped_blocks' = CallInput
            /\ pc' = "loop"
    /\ block_index' = 0
    /\ UNCHANGED <<blocks, maximum_lines, persistence, pass, first_result>>
    /\ UNCHANGED <<importVars, slideVars>>
    /\ UNCHANGED callVars

\* one iteration of `while block_index < wrapped_blocks[0].len()`
WrapStep ==
    /\ pc = "loop"
    /\ block_index < Len(wrapped_blocks[1])
    /\ LET len == Len(wrapped_blocks[1][block_index + 1])
           split == len > maximum_lines
           ins == NeedsInsert(wrapped_blocks, block_index, persistence)
       IN  /\ (split /\ ins) => Len(wrapped_blocks[1]) < StanzaCap
           /\ wrapped_blocks' =
                IF split
                THEN MoveLines(
                        IF ins THEN InsertEmpty(wrapped_blocks, block_index)
                               ELSE wrapped_blocks,
                        block_index, Splitter(maximum_lines, len), 0)
                ELSE wrapped_blocks
           /\ block_index' = NextBlockIndex(block_index, split)
    /\ UNCHANGED <<blocks, maximum_lines, persistence, pc, pass, first_result>>
    /\ UNCHANGED <<importVars, slideVars>>
    /\ UNCHANGED callVars

\* the loop exit and the return of wrapped_blocks
WrapReturn ==
    /\ pc = "loop"
    /\ ~(block_index < Len(wrapped_blocks[1]))
    /\ pc' = "done"
    /\ UNCHANGED <<blocks, maximum_lines, persistence, wrapped_blocks,
                   block_index, pass, first_result>>
    /\ UNCHANGED <<importVars, slideVars>>
    /\ UNCHANGED callVars

\* wrap_blocks called again on the value it returned, with the same arguments
Rewrap ==
    /\ pc = "done"
    /\ pass = 1
    /\ first_result' = wrapped_blocks
    /\ pass' = 2
    /\ pc' = "start"
    /\ wrapped_blocks' = <<>>
    /\ block_index' = 0
    /\ UNCHANGED <<blocks, maximum_lines, persistence>>
    /\ UNCHANGED <<importVars, slideVars>>
    /\ UNCHANGED callVars

\* ----------------------------------------------- slides_from_classic_song
\* the argument backup_title
backup_title == <<"T">>

\* Option: None is <<>>, Some(x) is <<x>>
None == <<>>
Some(x) == <<x>>

Dashes == <<"-", "-", "-">>

\* handle_block: a tag block goes to the metadata, a content block is pushed
\* to blocks together with its secondary block
HandleBlockSkipEmpty(md, flag, cur, cur2, bs, sbs) ==
    IF flag
    THEN LET m == PutAll(md, TagMatches(cur, 1, TRUE))
         IN  [metadata |-> IF Title \in DOMAIN m THEN m ELSE Put(m, Title, backup_title),
              blocks |-> bs, secondary_blocks |-> sbs]
    ELSE IF Trim(cur) # <<>>
         THEN [metadata |-> md, blocks |-> Append(bs, Lines(cur)),
               secondary_blocks |-> IF cur2 = <<>> THEN sbs ELSE Append(sbs, Lines(cur2))]
         ELSE [metadata |-> md, blocks |-> bs, secondary_blocks |-> sbs]
HandleBlock(md, flag, cur, cur2, bs, sbs) ==
    IF flag
    THEN LET m == PutAll(md, TagMatches(cur, 1, TRUE))
         IN  [metadata |-> IF Title \in DOMAIN m THEN m ELSE Put(m, Title, backup_title),
              blocks |-> bs, secondary_blocks |-> sbs]
    ELSE IF Trim(cur) # <<>>
         THEN [metadata |-> md, blocks |-> Append(bs, Lines(cur)),
               secondary_blocks |-> Append(sbs, Lines(cur2))]
         ELSE [metadata |-> md, blocks |-> bs, secondary_blocks |-> sbs]

\* one iteration of `for line in content.trim().lines()`
SlidesLine ==
    /\ pc = "slides_loop"
    /\ lines_left # <<>>
    /\ LET line == Head(lines_left)
           start == empty_line \/ start_block_flag
           decide == start /\ line # <<>>
           flag == IF decide THEN line[1] = "#" ELSE meta_block_flag
       IN  /\ lines_left' = Tail(lines_left)
           /\ start_block_flag' = IF decide THEN FALSE ELSE start
           /\ meta_block_flag' = flag
           /\ IF Trim(line) = <<>>
              THEN /\ empty_line' = TRUE
                   /\ writing_area' = "MainBlock"
                   /\ IF cur_block_string = <<>>
                      THEN UNCHANGED <<metadata, slide_blocks, secondary_blocks,
                                       cur_block_string, cur_secundary_block_string>>
                      ELSE LET h == HandleBlock(metadata, flag, cur_block_string,
                                                cur_secundary_block_string,
                                                slide_blocks, secondary_blocks)
                           IN  /\ metadata' = h.metadata
                               /\ slide_blocks' = h.blocks
                               /\ secondary_blocks' = h.secondary_blocks
                               /\ cur_block_string' = <<>>
                               /\ cur_secundary_block_string' = <<>>
              ELSE IF Trim(line) = Dashes
              THEN /\ writing_area' = "SecondaryBlock"
                   /\ UNCHANGED <<empty_line, metadata, slide_blocks, secondary_blocks,
                                  cur_block_string, cur_secundary_block_string>>
              ELSE /\ IF writing_area = "MainBlock"
                      THEN /\ cur_block_string' = cur_block_string \o <<NL>> \o line
                           /\ UNCHANGED cur_secundary_block_string
                      ELSE /\ cur_secundary_block_string' =
                                cur_secundary_block_string \o <<NL>> \o line
                           /\ UNCHANGED cur_block_string
                   /\ UNCHANGED <<empty_line, writing_area, metadata, slide_blocks,
                                  secondary_blocks>>
    /\ UNCHANGED <<slide_settings, slides, meta_text, meta_text_showable, input_empty,
                   input_title>>
    /\ UNCHANGED <<wrapVars, importVars>>
    /\ UNCHANGED callVars

\* the values of slide_settings.max_lines: None (0 here) or Some(1..MaxM)
MaxLinesSet == 0..MaxM

\* after the loop: handle_block for the last block, then
\* `if slide_settings.max_lines.is_some()` and the call of wrap_blocks
SlidesLastBlock ==
    /\ pc = "slides_loop"
    /\ lines_left = <<>>
    /\ LET h == HandleBlock(metadata, meta_block_flag, cur_block_string,
                            cur_secundary_block_string, slide_blocks, secondary_blocks)
       IN  /\ metadata' = h.metadata
           /\ slide_blocks' = h.blocks
           /\ secondary_blocks' = h.secondary_blocks
           /\ \E ml \in MaxLinesSet :
                /\ slide_settings' = [slide_settings EXCEPT !.max_lines = ml]
                /\ IF ml = 0
                   THEN /\ pc' = "render"
                        /\ UNCHANGED <<blocks, maximum_lines, persistence>>
                   ELSE /\ pc' = "start"
                        /\ blocks' = <<h.blocks, h.secondary_blocks>>
                        /\ maximum_lines' = ml
                        /\ persistence' = TRUE
    /\ UNCHANGED <<lines_left, empty_line, start_block_flag, meta_block_flag,
                   cur_block_string, cur_secundary_block_string, writing_area, slides,
                   meta_text, meta_text_showable, input_empty, input_title>>
    /\ UNCHANGED <<wrapped_blocks, block_index, pass, first_result>>
    /\ UNCHANGED importVars
    /\ UNCHANGED callVars

\* blocks and secondary_blocks are replaced by the two wrapped tracks
SlidesTakeWrapped ==
    /\ pc = "done"
    /\ slide_settings.max_lines # 0
    /\ slide_blocks' = wrapped_blocks[1]
    /\ secondary_blocks' = wrapped_blocks[2]
    /\ pc' = "render"
    /\ UNCHANGED <<lines_left, empty_line, start_block_flag, meta_block_flag,
                   cur_block_string, cur_secundary_block_string, metadata,
                   writing_area, slide_settings, slides, meta_text,
                   meta_text_showable, input_empty, input_title>>
    /\ UNCHANGED <<wrapVars_but_pc, importVars>>
    /\ UNCHANGED callVars

\* A Handlebars template is a list of literal texts and of {{key}} expressions,
\* or a text that does not parse as a template (valid = FALSE).
Literal(t) == [is_var |-> FALSE, text |-> t]
Variable(k) == [is_var |-> TRUE, text |-> k]
MetaSyntaxSet ==
    {[valid |-> TRUE, parts |-> <<>>],
     [valid |-> TRUE, parts |-> <<Literal(<<" ">>)>>],
     [valid |-> TRUE, parts |-> <<Variable(Title)>>],
     [valid |-> FALSE, parts |-> <<>>]}

RECURSIVE RenderParts(_, _)
RenderParts(parts, md) ==
    IF parts = <<>> THEN <<>>
    ELSE LET p == Head(parts)
             t == IF ~p.is_var THEN p.text
                  ELSE IF p.text \in DOMAIN md THEN md[p.text] ELSE <<>>
         IN  t \o RenderParts(Tail(parts), md)

\* render_metadata: Err for a template that does not parse; a key the
\* metadata lacks renders as the empty text
RenderMetadata(template, md) ==
    IF template.valid
    THEN [ok |-> TRUE, text |-> RenderParts(template.parts, md)]
    ELSE [ok |-> FALSE, text |-> <<>>]

ShowMetaInformation == {"None", "FirstSlide", "LastSlide", "FirstSlideAndLastSlide"}
on_first_slide(s) == s \in {"FirstSlide", "FirstSlideAndLastSlide"}
on_last_slide_both_only(s) == s = "FirstSlideAndLastSlide"
on_last_slide(s) == s \in {"LastSlide", "FirstSlideAndLastSlide"}

NonEmpty(o) == IF o # None /\ o[1] = <<>> THEN None ELSE o
\* Some("") and Some(blank) become None
NonBlank(o) == IF o # None /\ Trim(o[1]) = <<>> THEN None ELSE o

new_title_slide(title_text, meta) ==
    [kind |-> "Title", main_text |-> title_text, spoiler_text |-> None,
     meta_text |-> meta]
new_content_slide_swapped(main_text, spoiler_text, meta) ==
    [kind |-> "SingleLanguageMainContent",
     main_text |-> IF spoiler_text = None THEN <<>> ELSE spoiler_text[1],
     spoiler_text |-> NonBlank(Some(main_text)), meta_text |-> NonBlank(meta)]
new_content_slide(main_text, spoiler_text, meta) ==
    [kind |-> "SingleLanguageMainContent", main_text |-> main_text,
     spoiler_text |-> NonBlank(spoiler_text), meta_text |-> NonBlank(meta)]
new_empty_slide ==
    [kind |-> "Empty", main_text |-> <<>>, spoiler_text |-> None, meta_text |-> None]

\* Slide::has_meta_text, Slide::has_spoiler
has_meta_text(sl) == sl.kind \in {"SingleLanguageMainContent", "Title"} /\ sl.meta_text # None
has_spoiler(sl) == sl.kind = "SingleLanguageMainContent" /\ sl.spoiler_text # None

ContentSlideLookaheadOnly(index, st, showable, text) ==
    LET count == Len(slide_blocks)
        block == slide_blocks[index + 1]
        displayed_meta_text ==
            IF \/ (showable /\ (on_first_slide(st.show_meta_information) /\ index = 1))
               \/ (on_last_slide(st.show_meta_information) /\ index = count - 1)
            THEN Some(text) ELSE None
    IN  IF index + 1 < count
        THEN new_content_slide(Join(block, <<NL>>),
                               Some(Join(slide_blocks[index + 2], <<NL>>)),
                               displayed_meta_text)
        ELSE new_content_slide(Join(block, <<NL>>), None, displayed_meta_text)
\* the slide that the slide loop pushes for blocks[index]
ContentSlide(index, st, showable, text) ==
    LET count == Len(slide_blocks)
        block == slide_blocks[index + 1]
        secondary_block == secondary_blocks[index + 1]
        displayed_meta_text ==
            IF \/ (showable /\ (on_first_slide(st.show_meta_information) /\ index = 1))
               \/ (on_last_slide(st.show_meta_information) /\ index = count - 1)
            THEN Some(text) ELSE None
    IN  IF secondary_block = <<>>
        THEN IF index + 1 < count
             THEN new_content_slide(Join(block, <<NL>>),
                                    Some(Join(slide_blocks[index + 2], <<NL>>)),
                                    displayed_meta_text)
             ELSE new_content_slide(Join(block, <<NL>>), None, displayed_meta_text)
        ELSE new_content_slide(Join(block, <<NL>>),
                               Some(Join(secondary_block, <<NL>>)),
                               displayed_meta_text)

\* "Create the Presentation": the meta text, the title backfill, the title
\* slide, the slide loop, the empty last slide.  secondary_blocks.get(index)
\* .unwrap() panics when the secondary track is shorter than blocks.
SlidesBuild ==
    /\ pc = "render"
    /\ \E ts \in BOOLEAN, sp \in BOOLEAN, smi \in ShowMetaInformation,
          ms \in MetaSyntaxSet, els \in BOOLEAN :
         LET st == [slide_settings EXCEPT !.title_slide = ts, !.show_spoiler = sp,
                        !.show_meta_information = smi, !.meta_syntax = ms,
                        !.empty_last_slide = els]
             rendered == RenderMetadata(ms, metadata)
             text == rendered.text
             showable == rendered.ok /\ rendered.text # <<>>
             md == IF Title \in DOMAIN metadata THEN metadata
                   ELSE Put(metadata, Title, backup_title)
             title_slides ==
                 IF ts THEN <<new_title_slide(md[Title],
                                 IF showable THEN Some(text) ELSE None)>>
                 ELSE <<>>
             count == Len(slide_blocks)
         IN  /\ slide_settings' = st
             /\ meta_text' = text
             /\ meta_text_showable' = showable
             /\ metadata' = md
             /\ IF Len(secondary_blocks) < count
                THEN /\ pc' = "panicked"
                     /\ slides' = title_slides
                ELSE /\ pc' = "slides_done"
                     /\ slides' =
                          title_slides
                          \o [i \in 1..count |-> ContentSlide(i - 1, st, showable, text)]
                          \o (IF els THEN <<new_empty_slide>> ELSE <<>>)
    /\ UNCHANGED <<lines_left, empty_line, start_block_flag, meta_block_flag,
                   slide_blocks, secondary_blocks, cur_block_string,
                   cur_secundary_block_string, writing_area, input_empty,
                   input_title>>
    /\ UNCHANGED <<wrapVars_but_pc, importVars>>
    /\ UNCHANGED callVars

\* ------------------------------------------- functions called on their own
\* no function is called on its own
CallIdle ==
    /\ call_args = <<>>
    /\ call_result = <<>>

Letters == LowerLetters \cup UpperLetters
Digits == {"1", "2"}

\* ([a-zA-Z]+)\.(\d+) matches at position h of s
IdMatchAt(s, h) ==
    LET dot == SkipWhile(s, h, Letters)
    IN  /\ dot > h
        /\ dot <= Len(s) /\ s[dot] = "."
        /\ SkipWhile(s, dot + 1, Digits) > dot + 1

\* SongPartId::parse: Some when the regex is found in id
SongPartIdParse(id) ==
    IF \E h \in 1..Len(id) : IdMatchAt(id, h)
    THEN Some([id |-> id, checked_unique |-> FALSE])
    ELSE None

\* SongPartId::parse(call_args.id)
ParseIdCall ==
    /\ pc = "call_parse"
    /\ call_result = <<>>
    /\ call_result' = <<SongPartIdParse(call_args.id)>>
    /\ UNCHANGED <<call_args, wrapVars, importVars, slideVars>>

\* Song::add_part_of_type(part_type, specific_number); specific_number 0 is None
add_part_of_type(sg, t, specific_number) ==
    LET id == <<TypeToString(t),
                IF specific_number = 0 THEN GetPartCount(sg, t) + 1 ELSE specific_number>>
    IN  [sg EXCEPT !.parts = Append(@, NewSongPart(id, specific_number))]

\* the parts a song is given, the specific numbers tried
MaxParts == 2
MaxSpecificNumber == 1

\* song.add_part_of_type(part_type, specific_number), returning the part added
AddPartCall ==
    /\ pc = "call_add_part"
    /\ Len(song.parts) < MaxParts
    /\ \E t \in SongPartTypes, n \in 0..MaxSpecificNumber :
          /\ call_args' = [part_type |-> t, specific_number |-> n]
          /\ song' = add_part_of_type(song, t, n)
          /\ call_result' = <<song'.parts[Len(song'.parts)]>>
    /\ UNCHANGED <<wrapVars, content, line_no, part, result, block_metadata, slideVars>>

\* Slide::new_content_slide(main_text, spoiler_text, meta_text)
NewContentSlideCall ==
    /\ pc = "call_new_content_slide"
    /\ call_result = <<>>
    /\ call_result' = <<new_content_slide(call_args.main_text, call_args.spoiler_text,
                                          call_args.meta_text)>>
    /\ UNCHANGED <<call_args, wrapVars, importVars, slideVars>>

\* import_song is not running
ImportIdle ==
    /\ content = <<>>
    /\ line_no = 0
    /\ song = NewSong(<<>>)
    /\ part = <<>>
    /\ result = "none"
    /\ block_metadata = "none"

\* SlideSettings::default()
DefaultSettings ==
    [title_slide |-> TRUE, show_spoiler |-> TRUE,
     show_meta_information |-> "FirstSlideAndLastSlide",
     meta_syntax |-> [valid |-> TRUE, parts |-> <<>>],
     empty_last_slide |-> TRUE, max_lines |-> 0]

\* slides_from_classic_song is not running
SlidesIdle ==
    /\ lines_left = <<>>
    /\ empty_line = FALSE
    /\ start_block_flag = TRUE
    /\ meta_block_flag = FALSE
    /\ slide_blocks = <<>>
    /\ secondary_blocks = <<>>
    /\ cur_block_string = <<>>
    /\ cur_secundary_block_string = <<>>
    /\ metadata = EmptyMap
    /\ writing_area = "MainBlock"
    /\ slide_settings = DefaultSettings
    /\ slides = <<>>
    /\ meta_text = <<>>
    /\ meta_text_showable = FALSE
    /\ input_empty = FALSE
    /\ input_title = None

\* wrap_blocks is not running
WrapIdle ==
    /\ blocks = <<>>
    /\ maximum_lines = 1
    /\ persistence = TRUE
    /\ wrapped_blocks = <<>>
    /\ block_index = 0
    /\ pass = 1
    /\ first_result = <<>>

\* ------------------------------------------------ inputs of wrap_blocks
\* stanza lengths of one track
TrackShapes ==
    UNION {{q \in [1..n -> 0..MaxTrackLines] : SumSeq(q) <= MaxTrackLines}
           : n \in 0..MaxStanzas}

\* A line is named by where it stands in the input: wrap_blocks never reads a line.
TrackOf(t, q) == [s \in 1..Len(q) |-> [k \in 1..q[s] |-> <<t, s, k>>]]

WrapInputs ==
    UNION {{[t \in 1..n |-> TrackOf(t, shape[t])] : shape \in [1..n -> TrackShapes]}
           : n \in 0..PipelineTracks}

InitWrap ==
    /\ blocks \in WrapInputs
    /\ maximum_lines \in 1..MaxM
    /\ persistence \in BOOLEAN
    /\ wrapped_blocks = <<>>
    /\ block_index = 0
    /\ pc = "start"
    /\ pass = 1
    /\ first_result = <<>>
    /\ ImportIdle
    /\ SlidesIdle
    /\ CallIdle

NextWrap == WrapEnter \/ WrapStep \/ WrapReturn \/ Rewrap

SpecWrap == InitWrap /\ [][NextWrap]_vars

\* ------------------------------------------------ inputs of import_song
\* Most lines of a text given to import_song.
MaxImportLines == 3

TitleA == <<"#", "t", "i", "t", "l", "e", ":", " ", "A">>
TitleBSpace == <<"#", "t", "i", "t", "l", "e", ":", " ", "B", " ">>
UpperTitleB == <<"#", "T", "i", "t", "l", "e", ":", " ", "B">>
TitleNoValue == <<"#", "t", "i", "t", "l", "e", ":">>

\* the lines the texts are made of: blank, white space, tag lines, lyric lines
ImportLineSet ==
    {<<>>, <<" ">>, TitleA, TitleBSpace, UpperTitleB, TitleNoValue,
     <<"a">>, <<"A">>, <<"b">>}

Texts(lineSet, n) ==
    UNION {{Join(ls, <<NL>>) : ls \in [1..k -> lineSet]} : k \in 0..n}

InitImport ==
    /\ content \in Texts(ImportLineSet, MaxImportLines)
    /\ line_no = 0
    /\ song = NewSong(<<>>)
    /\ part = <<>>
    /\ result = "none"
    /\ block_metadata = "none"
    /\ pc = "import"
    /\ WrapIdle
    /\ SlidesIdle
    /\ CallIdle

NextImport == ImportEnter \/ ImportLine \/ ImportReturn \/ ParseMetadataCall

SpecImport == InitImport /\ [][NextImport]_vars

\* ------------------------------------ inputs of import_song: stanzas
\* Most stanzas of a text given to import_song.
MaxSongStanzas == 4

\* a tag stanza and lyric stanzas, two of them alike but for the case
StanzaSet == {TitleA, <<"a">>, <<"A">>, <<"b">>, <<"e">>, <<"a", NL, "b">>}

\* texts of stanzas with one blank line between them
StanzaTexts(stanzaSet, n) ==
    UNION {{Join(ss, <<NL, NL>>) : ss \in [1..k -> stanzaSet]} : k \in 0..n}

InitStanzas ==
    /\ content \in StanzaTexts(StanzaSet, MaxSongStanzas)
    /\ line_no = 0
    /\ song = NewSong(<<>>)
    /\ part = <<>>
    /\ result = "none"
    /\ block_metadata = "none"
    /\ pc = "import"
    /\ WrapIdle
    /\ SlidesIdle
    /\ CallIdle

SpecStanzas == InitStanzas /\ [][NextImport]_vars

\* ---------------------------------- inputs of slides_from_classic_song
\* Most lines of a text given to slides_from_classic_song.
MaxSlideLines == 4

\* blank, white space, a tag line, lyric lines, the secondary delimiter
SlideLineSet == {<<>>, <<" ">>, TitleA, <<"a">>, <<"b">>, Dashes}

InitSlides ==
    /\ \E c \in Texts(SlideLineSet, MaxSlideLines) :
          /\ lines_left = Lines(Trim(c))
          /\ input_empty = (c = <<>>)
          /\ input_title = (LET t == GetTitleFromFileContent(c)
                            IN  IF t.some THEN Some(t.v) ELSE None)
    /\ empty_line = FALSE
    /\ start_block_flag = TRUE
    /\ meta_block_flag = FALSE
    /\ slide_blocks = <<>>
    /\ secondary_blocks = <<>>
    /\ cur_block_string = <<>>
    /\ cur_secundary_block_string = <<>>
    /\ metadata = EmptyMap
    /\ writing_area = "MainBlock"
    /\ slide_settings = DefaultSettings
    /\ slides = <<>>
    /\ meta_text = <<>>
    /\ meta_text_showable = FALSE
    /\ pc = "slides_loop"
    /\ WrapIdle
    /\ ImportIdle
    /\ CallIdle

NextSlides ==
    \/ SlidesLine
    \/ SlidesLastBlock
    \/ WrapEnter
    \/ WrapStep
    \/ WrapReturn
    \/ SlidesTakeWrapped
    \/ SlidesBuild

SpecSlides == InitSlides /\ [][NextSlides]_vars

\* --------------------------------- inputs of the functions called on their own
\* Most characters of a text given to SongPartId::parse.
MaxIdLen == 4

IdChars == {"a", "A", ".", "1", "!"}

IdTexts == UNION {[1..n -> IdChars] : n \in 0..MaxIdLen}

InitParseId ==
    /\ call_args \in [id : IdTexts]
    /\ call_result = <<>>
    /\ pc = "call_parse"
    /\ WrapIdle
    /\ ImportIdle
    /\ SlidesIdle

SpecParseId == InitParseId /\ [][ParseIdCall]_vars

InitAddPart ==
    /\ CallIdle
    /\ pc = "call_add_part"
    /\ WrapIdle
    /\ ImportIdle
    /\ SlidesIdle

SpecAddPart == InitAddPart /\ [][AddPartCall]_vars

\* texts and optional texts: empty, blank, with and without white space around
SlideTexts == {<<>>, <<" ">>, <<NL>>, <<"a">>, <<" ", "a", " ">>}
OptionalSlideTexts == {None} \cup {Some(t) : t \in SlideTexts}

InitNewSlide ==
    /\ call_args \in [main_text : {<<>>, <<"a">>, <<NL, "a">>},
                      spoiler_text : OptionalSlideTexts,
                      meta_text : OptionalSlideTexts]
    /\ call_result = <<>>
    /\ pc = "call_new_content_slide"
    /\ WrapIdle
    /\ ImportIdle
    /\ SlidesIdle

SpecNewSlide == InitNewSlide /\ [][NewContentSlideCall]_vars

\* ---------------------------------------------------- claims: import_song
\* the text format, line by line, as the specification words it

\* `#key: value`: a '#', one or more word characters, a ':', a value that is not blank
IsTagLine(l) ==
    LET t == Trim(l)
        c == SkipWhile(t, 2, WordChars)
    IN  /\ t # <<>> /\ t[1] = "#"
        /\ c > 2 /\ c <= Len(t) /\ t[c] = ":"
        /\ Trim(SubSeq(t, c + 1, Len(t))) # <<>>

TagKey(l) == LET t == Trim(l) IN SubSeq(t, 2, SkipWhile(t, 2, WordChars) - 1)
TagValue(l) ==
    LET t == Trim(l) IN Trim(SubSeq(t, SkipWhile(t, 2, WordChars) + 1, Len(t)))

\* a line that begins, in whatever case, with `#title:`
NamesTitle(l) ==
    LET t == Trim(l)
    IN  Len(t) >= 7 /\ ToLower(SubSeq(t, 1, 7)) = <<"#">> \o Title \o <<":">>

\* line i of ls stands in a stanza whose first line begins with '#'
InTagBlock(ls, i) ==
    LET firsts == {j \in 1..i : /\ \A k \in j..i : Trim(ls[k]) # <<>>
                                /\ j = 1 \/ Trim(ls[j - 1]) = <<>>}
    IN  \E j \in firsts : Trim(ls[j])[1] = "#"

\* C8: import_song returns the NoContent error exactly for the inputs that are
\* empty after trimming, and a Song for every other input.
C8_NoContentIffBlank ==
    result # "none" => (result = "NoContent" <=> Trim(content) = <<>>)

\* C9: when a line `#title: X` is the one line of the input that names the
\* title, the Song returned has the title X, trimmed, and its tag "title" agrees
\* when the line stands in a tag block.
C9_TitleIsTrimmedValue ==
    LET ls == Lines(content)
    IN  result = "Ok" =>
        \A i \in 1..Len(ls) :
            (/\ IsTagLine(ls[i]) /\ TagKey(ls[i]) = Title
             /\ \A j \in 1..Len(ls) : NamesTitle(ls[j]) => j = i)
            => /\ song.title = TagValue(ls[i])
               /\ InTagBlock(ls, i) =>
                    (Title \in DOMAIN song.tags /\ song.tags[Title] = song.title)

\* the last of the lines in `is` (indices into ls)
LastOf(is) == CHOOSE i \in is : \A j \in is : j <= i

\* C10: when a key stands on several tag lines (keys compared without case),
\* the value stored for it is that of the last of them in input order: in the
\* mapping of parse_metadata_block, and in the tags and the title of import_song
\* (tag lines of tag blocks).
C10_LastTagLineWins ==
    LET ls == Lines(content)
        keys == {ToLower(TagKey(ls[i])) : i \in {j \in 1..Len(ls) : IsTagLine(ls[j])}}
        all(k) == {i \in 1..Len(ls) : IsTagLine(ls[i]) /\ ToLower(TagKey(ls[i])) = k}
        tagged(k) == {i \in all(k) : InTagBlock(ls, i)}
    IN  /\ block_metadata # "none" =>
            \A k \in keys : Cardinality(all(k)) >= 2 =>
                /\ k \in DOMAIN block_metadata[1]
                /\ block_metadata[1][k] = TagValue(ls[LastOf(all(k))])
        /\ result = "Ok" =>
            \A k \in keys : Cardinality(tagged(k)) >= 2 =>
                /\ k \in DOMAIN song.tags
                /\ song.tags[k] = TagValue(ls[LastOf(tagged(k))])
                /\ k = Title => song.title = TagValue(ls[LastOf(tagged(k))])

RECURSIVE GroupLines(_, _)
\* the stanzas of the lines ls: the maximal runs of non-blank lines, each line
\* trimmed; cur is the run being read
GroupLines(ls, cur) ==
    IF ls = <<>> THEN (IF cur = <<>> THEN <<>> ELSE <<cur>>)
    ELSE IF Trim(Head(ls)) = <<>>
         THEN (IF cur = <<>> THEN <<>> ELSE <<cur>>) \o GroupLines(Tail(ls), <<>>)
         ELSE GroupLines(Tail(ls), Append(cur, Trim(Head(ls))))

\* the content stanzas of a text, in input order: those not beginning with '#'
ContentStanzas(c) ==
    LET all == GroupLines(Lines(c), <<>>)
        RECURSIVE keep(_)
        keep(q) == IF q = <<>> THEN <<>>
                   ELSE (IF Head(q)[1][1] = "#" THEN <<>> ELSE <<Head(q)>>) \o keep(Tail(q))
    IN  keep(all)

\* the text of a stanza as it is compared: without case
StanzaKey(st) == ToLower(Join(st, <<NL>>))

\* how often the text k occurs among the stanzas cs
Occurrences(cs, k) == Cardinality({i \in 1..Len(cs) : StanzaKey(cs[i]) = k})

CountOfType(sg, t) == Cardinality({i \in 1..Len(sg.parts) : sg.parts[i].part_type = t})

RECURSIVE FirstOccurrences(_, _)
\* the texts of the stanzas cs without case, each once, in the order of their
\* first occurrence; seen is the set of the texts met so far
FirstOccurrences(cs, seen) ==
    IF cs = <<>> THEN <<>>
    ELSE LET k == StanzaKey(Head(cs))
         IN  IF k \in seen THEN FirstOccurrences(Tail(cs), seen)
             ELSE <<k>> \o FirstOccurrences(Tail(cs), seen \cup {k})

C12_NewPartIdIsFresh ==
    [][Len(song'.parts) > Len(song.parts) =>
         \A i \in 1..Len(song.parts) :
            song'.parts[i].id # song'.parts[Len(song'.parts)].id]_vars

\* C13: a part created by add_part_of_type(t, None) has the number that its
\* id ends with, the count of the parts of its type before it plus one.
C13_NumberIsIdSuffix ==
    [][Len(song'.parts) > Len(song.parts) =>
         LET new == song'.parts[Len(song'.parts)]
         IN  /\ new.id[2] = CountOfType(song, new.part_type) + 1
             /\ new.number = new.id[2]]_vars

\* C14: in every Song returned by import_song no part has is_repetition_of
\* set (0 is the unset reference).
C14_NoRepetitionReference ==
    result = "Ok" => \A i \in 1..Len(song.parts) : song.parts[i].is_repetition_of = 0

\* a song with a part promoted to Chorus and a Verse appended after it
C14_Witness ==
    /\ result = "Ok"
    /\ \E i, j \in 1..Len(song.parts) :
          /\ i < j
          /\ song.parts[i].part_type = "Chorus"
          /\ song.parts[j].part_type = "Verse"

\* ---------------------------------- claims: slides_from_classic_song
\* C6: in the slide pipeline blocks and secondary_blocks have the same number
\* of stanzas after every processed input line, all tracks of wrapped_blocks
\* have the same number of stanzas after every split step of wrap_blocks, and
\* neither the length check of wrap_blocks nor the lookup
\* secondary_blocks.get(index).unwrap() of the slide loop fails.
C6_TracksAligned ==
    /\ pc \in {"slides_loop", "start", "render", "slides_done"}
          => Len(slide_blocks) = Len(secondary_blocks)
    /\ pc \in {"loop", "done"}
          => \A t \in 1..Len(wrapped_blocks) :
                Len(wrapped_blocks[t]) = Len(wrapped_blocks[1])
    /\ pc # "panicked"

\* a stanza with a secondary block has been wrapped with a split and turned
\* into slides
C6_Witness ==
    /\ pc = "slides_done"
    /\ slide_settings.max_lines # 0
    /\ Len(slide_blocks) > Len(blocks[1])
    /\ \E i \in 1..Len(blocks[2]) : blocks[2][i] # <<>>
    /\ Len(slides) >= Len(slide_blocks)

\* slides_from_classic_song has returned its slides
SlidesReturned == pc = "slides_done"

\* the positions (from 1) of the content slides in the output
ContentPositions == {i \in 1..Len(slides) : slides[i].kind = "SingleLanguageMainContent"}

\* the template rendered without error to a text that is not blank
RenderedNonBlank == slide_settings.meta_syntax.valid /\ Trim(meta_text) # <<>>

\* the title the song has by its text and the backup title
SongTitle == IF input_title = None THEN backup_title ELSE input_title[1]

\* C21: the title slide shows the value of the #title tag of the content, or
\* the backup title when there is none, and the meta template is given the
\* same title, also when the content has no metadata block.
C21_BackupTitleEverywhere ==
    SlidesReturned =>
        /\ slide_settings.title_slide => slides[1].main_text = SongTitle
        /\ slide_settings.meta_syntax = [valid |-> TRUE, parts |-> <<Variable(Title)>>]
              => meta_text = SongTitle

\* the step hands the stanza collected in cur_block_string to handle_block:
\* at a blank line, or after the last line
StanzaHandled ==
    /\ pc = "slides_loop"
    /\ cur_block_string # <<>>
    /\ cur_block_string' = <<>> \/ pc' # "slides_loop"

\* C25: a stanza is handled as a metadata block if and only if its first
\* line starts with '#': a metadata block adds no entry to blocks, a content
\* stanza adds one and leaves the metadata alone.
C25_FirstLineClassifies ==
    [][StanzaHandled =>
         IF cur_block_string[2] = "#"
         THEN slide_blocks' = slide_blocks /\ Title \in DOMAIN metadata'
         ELSE Len(slide_blocks') = Len(slide_blocks) + 1 /\ metadata' = metadata]_vars

\* C26: a blank line ends the stanza completely: after it both the main
\* buffer and the secondary buffer are empty and the active track is main.
C26_BlankLineClearsBuffers ==
    [][(pc = "slides_loop" /\ lines_left # <<>> /\ Trim(Head(lines_left)) = <<>>) =>
         /\ cur_block_string' = <<>>
         /\ cur_secundary_block_string' = <<>>
         /\ writing_area' = "MainBlock"]_vars

\* C15: with show_meta_information = FirstSlide, a title slide and a meta
\* template that renders to non-empty text, the slide at index 1 (the first
\* content slide) carries meta text and no other slide does.
C15_OnlySlideOneHasMeta ==
    (/\ SlidesReturned
     /\ slide_settings.show_meta_information = "FirstSlide"
     /\ slide_settings.title_slide
     /\ RenderedNonBlank
     /\ ContentPositions # {})
    => \A i \in 1..Len(slides) : has_meta_text(slides[i]) <=> i = 2

\* C16: with show_meta_information = None no slide of the output has meta text.
C16_PolicyNoneShowsNoMeta ==
    (SlidesReturned /\ slide_settings.show_meta_information = "None")
    => \A i \in 1..Len(slides) : ~has_meta_text(slides[i])

\* C17: with show_meta_information = LastSlide, when the template renders to a
\* text that is not blank the last content slide carries it and no other
\* content slide carries meta text; when the template fails to render or
\* renders empty no content slide carries meta text.
C17_LastContentSlideHasMeta ==
    (SlidesReturned /\ slide_settings.show_meta_information = "LastSlide")
    => LET last == CHOOSE i \in ContentPositions : \A j \in ContentPositions : j <= i
       IN  /\ RenderedNonBlank =>
                \A i \in ContentPositions :
                    /\ has_meta_text(slides[i]) <=> i = last
                    /\ i = last => slides[i].meta_text = Some(meta_text)
           /\ (~slide_settings.meta_syntax.valid \/ meta_text = <<>>) =>
                \A i \in ContentPositions : ~has_meta_text(slides[i])

\* two content slides or more, the last one with the rendered title
C17_Witness ==
    /\ SlidesReturned
    /\ slide_settings.show_meta_information = "LastSlide"
    /\ RenderedNonBlank
    /\ Cardinality(ContentPositions) >= 2
    /\ \E i \in ContentPositions : has_meta_text(slides[i])

\* an optional text, the empty text being none
OptionalText(t) == IF t = <<>> THEN None ELSE Some(t)

\* the slide of stanza i (from 1) of the wrapped main track
SlideOfStanza(i) == slides[(IF slide_settings.title_slide THEN 1 ELSE 0) + i]

C19_NoSpoilerWhenOff ==
    (SlidesReturned /\ ~slide_settings.show_spoiler)
    => \A i \in 1..Len(slides) : ~has_spoiler(slides[i])

\* C30: for max_lines unset or set to two or more, every content slide
\* returned by slides_from_classic_song has a main text with a line that is
\* not blank.
C30_MainTextNotBlank ==
    (SlidesReturned /\ slide_settings.max_lines # 1) =>
        \A i \in ContentPositions :
            \E l \in Range(Lines(slides[i].main_text)) : Trim(l) # <<>>

\* C20: the output is a title slide first if and only if title_slide is set,
\* then one content slide per stanza of the wrapped main track in stanza
\* order, then an empty slide last if and only if empty_last_slide is set; the
\* empty input gives no content slide, and the call does not fail.
C20_OutputShape ==
    /\ pc # "panicked"
    /\ SlidesReturned =>
        LET t == IF slide_settings.title_slide THEN 1 ELSE 0
            e == IF slide_settings.empty_last_slide THEN 1 ELSE 0
            n == Len(slide_blocks)
        IN  /\ Len(slides) = t + n + e
            /\ t = 1 => slides[1].kind = "Title"
            /\ e = 1 => slides[Len(slides)].kind = "Empty"
            /\ \A i \in 1..n :
                  /\ slides[t + i].kind = "SingleLanguageMainContent"
                  /\ slides[t + i].main_text = Join(slide_blocks[i], <<NL>>)
            /\ input_empty => n = 0

\* a title slide, the slides of a wrapped stanza, an empty slide
C20_Witness ==
    /\ SlidesReturned
    /\ slide_settings.title_slide /\ slide_settings.empty_last_slide
    /\ slide_settings.max_lines # 0
    /\ Len(slide_blocks) > Len(blocks[1])
    /\ Len(slides) >= 4

\* ------------------------------- claims: functions called on their own
\* the whole of s is letters, a dot, digits
IsLettersDotDigits(s) ==
    \E k \in 2..(Len(s) - 1) :
        /\ s[k] = "."
        /\ \A i \in 1..(k - 1) : s[i] \in {"a", "A"}
        /\ \A i \in (k + 1)..Len(s) : s[i] = "1"

\* C22: SongPartId::parse(s) returns Some exactly when the whole of s has the
\* form letters '.' digits, and None for every other string.
C22_ParseAcceptsWholeFormOnly ==
    call_result # <<>> /\ pc = "call_parse" =>
        (call_result[1] # None <=> IsLettersDotDigits(call_args.id))

\* C23: add_part_of_type(t, n) creates a part whose part_type is t, and
\* get_part_count(t) grows by one, for each of the twelve types.
C23_PartHasTheTypeAsked ==
    [][pc = "call_add_part" /\ song' # song =>
         /\ call_result'[1].part_type = call_args'.part_type
         /\ CountOfType(song', call_args'.part_type)
              = CountOfType(song, call_args'.part_type) + 1]_vars

\* a text was given and is not blank
GivenNonBlank(o) == o # None /\ Trim(o[1]) # <<>>

\* C24: the slide made by new_content_slide has a spoiler (a meta text)
\* exactly when one was given that is not blank after trimming, and it is the
\* text given; an empty or blank text is never stored.
C24_BlankIsNone ==
    call_result # <<>> /\ pc = "call_new_content_slide" =>
        LET sl == call_result[1]
        IN  /\ has_spoiler(sl) <=> GivenNonBlank(call_args.spoiler_text)
            /\ has_meta_text(sl) <=> GivenNonBlank(call_args.meta_text)
            /\ has_spoiler(sl) => sl.spoiler_text = call_args.spoiler_text
            /\ has_meta_text(sl) => sl.meta_text = call_args.meta_text
            /\ sl.main_text = call_args.main_text

\* a blank spoiler was dropped and a meta text with white space around kept
C24_Witness ==
    /\ call_result # <<>> /\ pc = "call_new_content_slide"
    /\ call_args.spoiler_text = Some(<<NL>>)
    /\ call_args.meta_text = Some(<<" ", "a", " ">>)
    /\ ~has_spoiler(call_result[1])
    /\ has_meta_text(call_result[1])

\* ---------------------------------------------------- claims: wrap_blocks
\* the stanzas the loop has still to visit, in every track
Remaining ==
    [t \in 1..Len(wrapped_blocks) |->
        SubSeq(wrapped_blocks[t], block_index + 1, Len(wrapped_blocks[t]))]

SameLines(a, b) ==
    /\ Range(Flatten(a)) = Range(Flatten(b))
    /\ Len(Flatten(a)) = Len(Flatten(b))

\* the step is an iteration of the loop of wrap_blocks
LoopIteration == pc = "loop" /\ pc' = "loop" /\ block_index' = block_index + 1

\* C27: a split of stanza i of track 0, holding L lines, leaves it its first
\* min(maximum_lines - 1, L / 2) lines and puts the other lines, in their
\* order, at the front of stanza i+1; no iteration changes a stanza before
\* the one it visits.
C27_SplitPoint ==
    [][LoopIteration =>
         LET i == block_index + 1
             old == wrapped_blocks[1][i]
             L == Len(old)
             k == IF maximum_lines - 1 <= L \div 2 THEN maximum_lines - 1 ELSE L \div 2
         IN  /\ \A t \in 1..Len(wrapped_blocks) : \A j \in 1..(i - 1) :
                    wrapped_blocks'[t][j] = wrapped_blocks[t][j]
             /\ L > maximum_lines =>
                    /\ wrapped_blocks'[1][i] = SubSeq(old, 1, k)
                    /\ Len(wrapped_blocks'[1][i + 1]) >= L - k
                    /\ SubSeq(wrapped_blocks'[1][i + 1], 1, L - k) = SubSeq(old, k + 1, L)]_vars

\* a stanza of four lines was split at two for maximum_lines = 3, in front of
\* a stanza that was there before
C27_Witness ==
    /\ pc = "loop" /\ pass = 1 /\ ~persistence
    /\ block_index = 1
    /\ maximum_lines = 3
    /\ Len(blocks[1]) = 2 /\ Len(blocks[1][1]) = 4
    /\ Len(wrapped_blocks[1]) = 2
    /\ Len(wrapped_blocks[1][1]) = 2

\* the lines of every stanza of every track come from one stanza of the input
\* (a line is named <<track, stanza, position>> by its place in the input)
NoStanzaMixes(wb) ==
    \A t \in 1..Len(wb) : \A j \in 1..Len(wb[t]) :
        \A a, b \in Range(wb[t][j]) : a[2] = b[2]

\* C28: with persistence = true every split puts a new stanza after index i
\* into every track, so that no stanza holds lines of two stanzas of the
\* input and each split adds one to the stanza count; with persistence =
\* false a stanza is put in only when stanza i is the last one; an iteration
\* that does not split adds none.
C28_InsertOnSplit ==
    [][LoopIteration =>
         LET i == block_index + 1
             split == Len(wrapped_blocks[1][i]) > maximum_lines
             last == i = Len(wrapped_blocks[1])
             added == IF split /\ (persistence \/ last) THEN 1 ELSE 0
         IN  /\ \A t \in 1..Len(wrapped_blocks) :
                    /\ Len(wrapped_blocks'[t]) = Len(wrapped_blocks[t]) + added
                    /\ \A j \in (i + 1)..Len(wrapped_blocks[t]) :
                          added = 1 => wrapped_blocks'[t][j + 1] = wrapped_blocks[t][j]
             /\ (persistence /\ pass = 1) => NoStanzaMixes(wrapped_blocks')]_vars

\* a call with persistence on two tracks of two stanzas has returned after a
\* split of the first stanza
C28_Witness ==
    /\ pc = "done" /\ pass = 1 /\ persistence
    /\ Len(blocks) = 2 /\ Len(blocks[1]) = 2
    /\ Len(blocks[1][1]) > maximum_lines
    /\ Len(wrapped_blocks[1]) > 2

\* C1: in every result of wrap_blocks (maximum_lines >= 1, either persistence
\* flag) no stanza of track 0 has more than maximum_lines lines.
C1_PrimaryWithinLimit ==
    (pc = "done" /\ wrapped_blocks # <<>>) =>
        \A s \in 1..Len(wrapped_blocks[1]) :
            Len(wrapped_blocks[1][s]) <= maximum_lines

\* a returned result in which a stanza was split and merged into its successor
C1_Witness ==
    /\ pc = "done" /\ pass = 1 /\ ~persistence
    /\ Len(blocks) = 2 /\ Len(blocks[1]) = 2
    /\ wrapped_blocks # blocks
    /\ Len(wrapped_blocks[1]) > Len(blocks[1])

\* C2: wrap_blocks terminates for every maximum_lines >= 1. The loop acts only
\* on the stanzas from block_index on, so it ends only if no iteration leaves
\* the loop with the very stanzas it started with: an iteration that does is
\* repeated for ever.
C2_LoopMakesProgress ==
    [][(pc = "loop" /\ pc' = "loop") => Remaining' # Remaining]_vars

\* C3: every track holds the same lines (as a multiset; the lines of an input
\* are pairwise distinct) after every iteration and in the result.
C3_LinesConserved ==
    pc \in {"loop", "done"} =>
        \A t \in 1..Len(CallInput) : SameLines(wrapped_blocks[t], CallInput[t])

\* a result in which lines of the second track were moved
C3_Witness ==
    /\ pc = "done" /\ pass = 1 /\ Len(blocks) = 2
    /\ wrapped_blocks[2] # blocks[2]
    /\ Flatten(blocks[2]) # <<>>

\* C4: the lines of every track, read stanza after stanza, are the same
\* sequence before and after wrapping.
C4_OrderPreserved ==
    pc \in {"loop", "done"} =>
        \A t \in 1..Len(CallInput) :
            Flatten(wrapped_blocks[t]) = Flatten(CallInput[t])

\* C5: wrapping a result of wrap_blocks again, with the same arguments,
\* returns it unchanged.
C5_Idempotent ==
    (pass = 2 /\ pc = "done") => wrapped_blocks = first_result

\* the second call has returned, on a first result that differs from the input
C5_Witness ==
    /\ pass = 2 /\ pc = "done"
    /\ first_result # blocks

\* two tracks of the input have different stanza counts
StanzaCountsDisagree(b) ==
    \E i, j \in 1..Len(b) : Len(b[i]) # Len(b[j])

\* C7: with tracks of different stanza counts wrap_blocks panics before it
\* splits anything and returns nothing; with no track it returns the empty list.
C7_MismatchPanics ==
    /\ StanzaCountsDisagree(CallInput) =>
            (pc \in {"start", "panicked"} /\ wrapped_blocks = <<>>)
    /\ (CallInput = <<>> /\ pc # "start") =>
            (pc = "done" /\ wrapped_blocks = <<>>)

\* the panic, on two tracks of which the first has a stanza to split
C7_Witness ==
    /\ pc = "panicked"
    /\ Len(blocks) = 2
    /\ \E s \in 1..Len(blocks[1]) : Len(blocks[1][s]) > maximum_lines

====
